---- MODULE Spec2Model ----
(***************************************************************************)
(* The dispatch core of panther: Panther.__call__, handle_http, handle_ws  *)
(* (src/panther/main.py) and the framing helpers (src/panther/_utils.py).  *)
(*                                                                         *)
(* Every dispatch is a task of the host event loop.  A task owns its local *)
(* variables (the `task` record); the shared state is the configuration,   *)
(* the Monitoring instance of the application and the table of live        *)
(* websocket connections.                                                  *)
(*                                                                         *)
(* The event loop runs one task at a time up to the point where it parks   *)
(* in connection.listen() or returns; the tasks parked in listen stay      *)
(* alive while other dispatches run.  handle_http and handle_ws share no   *)
(* state but the read-only config, so the request-style dispatches are     *)
(* checked under HttpSpec and the duplex ones under WsSpec; Spec is both.  *)
(***************************************************************************)
EXTENDS Integers, Sequences, FiniteSets, TLC

\* ------------------------------------------------------------------ bounds
MaxMiddlewares == 2
NumDispatches == 2
MaxChunks == 2

Dispatches == 1..NumDispatches

\* -------------------------------------------------------- program constants
HTTP_204_NO_CONTENT == 204
HTTP_404_NOT_FOUND == 404
HTTP_500_INTERNAL_SERVER_ERROR == 500
HTTP_501_NOT_IMPLEMENTED == 501
WS_1000_NORMAL_CLOSURE == 1000
WS_1014_BAD_GATEWAY == 1014

VARIABLES
    config,                 \* the process-wide config table (load_configs)
    monitoring,             \* self.monitoring, shared by every handle_http
    websocket_connections,  \* the registry of admitted duplex connections
    task,                   \* the local state of each dispatch
    path_call,              \* one call of collect_path_variables
    read_call,              \* one call of read_body
    app                     \* the Panther instance under construction

\* The state of the dispatches, and that of the calls looked at on their own.
dispatch_vars == <<config, monitoring, websocket_connections, task>>
call_vars == <<path_call, read_call, app>>

vars == <<config, monitoring, websocket_connections, task, path_call, read_call, app>>

\* ------------------------------------------------------------------ values
\* Python None, as a body or as a JSON document.
None == [kind |-> "None", value |-> ""]
\* b'null': the serialization of Response(data=None).
NullBytes == [kind |-> "null", value |-> ""]

\* A body is the JSON document its bytes encode:
\*   kind "dict"   : a mapping supplied by the application,
\*   kind "literal": a literal supplied by the application,
\*   kind "detail" : {"detail": value}.
Document(kind, value) == [kind |-> kind, value |-> value]

\* panther.status.status_text
status_text(status_code) ==
    CASE status_code = HTTP_404_NOT_FOUND -> "Not Found"
      [] status_code = HTTP_500_INTERNAL_SERVER_ERROR -> "Internal Server Error"
      [] status_code = HTTP_501_NOT_IMPLEMENTED -> "Not Implemented"
      [] OTHER -> "Unknown"

\* panther.response.Response(data=..., status_code=...)
Response(data, status_code) == [status_code |-> status_code, body |-> data]
NoResponse == Response(None, 0)

\* What a handler may return.
HandlerResponses ==
    { Response(Document("dict", "data"), 200),
      Response(Document("dict", "data"), HTTP_204_NO_CONTENT),
      Response(NullBytes, 200) }

\* What a post-hook may return instead of the Response it was given.
AfterResponses == { Response(Document("dict", "after"), 201) }

\* Exceptions.  APIException carries status_code and detail.
NoException == [type |-> "none", status_code |-> 0, detail |-> None]
APIExceptions ==
    { [type |-> "APIException", status_code |-> 400,
       detail |-> Document("literal", "bad request")],
      [type |-> "APIException", status_code |-> 403,
       detail |-> Document("dict", "forbidden")] }
\* Any exception that is not an APIException; its text is in detail.
Defect == [type |-> "Exception", status_code |-> 0,
           detail |-> Document("literal", "traceback")]
TypeError == [type |-> "TypeError", status_code |-> 0,
              detail |-> Document("literal", "traceback")]
Raisable == APIExceptions \cup {Defect}

IsAPIException(e) == e.type = "APIException"

\* Handler references a Route can hold.
Endpoints ==
    { "None",                  \* find_endpoint found no Route
      "function_api",          \* a function wrapped by @API
      "function_plain",        \* a function without __wrapped__
      "class_GenericAPI",      \* a subclass of GenericAPI
      "class_GenericWebsocket" }\* a subclass of GenericWebsocket

IsFunctionType(endpoint) == endpoint \in {"function_api", "function_plain"}

\* Frames pushed to the host through send().
Frame(type, status, body) == [type |-> type, status |-> status, body |-> body]

\* ------------------------------------------------------------ load_configs
RECURSIVE Reverse(_)
Reverse(s) == IF s = <<>> THEN <<>> ELSE Reverse(Tail(s)) \o <<Head(s)>>

Unreversed(s) == s

\* config['middlewares'][::-1]
reversed_middlewares(middlewares) == Reverse(middlewares)

\* Panther.load_configs: the middleware chain and its reverse.
load_configs(n) ==
    LET middlewares == [k \in 1..n |-> k]
    IN  [middlewares |-> middlewares,
         reversed_middlewares |-> reversed_middlewares(middlewares)]

\* ------------------------------------------------------------- Monitoring
\* monitoring.log names the dispatch whose request the instance is timing,
\* 0 when that dispatch is gone.
\* Monitoring.before(request): remembers the request.
MonitoringBefore(m, p) == [m EXCEPT !.log = p]
\* Monitoring.after(status): reports the remembered request; keeps it.
MonitoringAfter(m, status) == m
\* The request of a task the host has dropped is no live request any more.
MonitoringForget(m, p) == IF m.log = p THEN [m EXCEPT !.log = 0] ELSE m

\* ----------------------------------------------------------------- _utils
\* _http_response_start
_http_response_start(status_code) ==
    Frame("http.response.start", status_code, None)

\* _http_response_body: without a 'body' key when body is None.
_http_response_body(body) == Frame("http.response.body", 0, body)

\* http_response: the two frames it sends.
http_response(status_code, body, exception) ==
    LET framed ==
            IF exception
              THEN Document("detail", status_text(status_code))
              ELSE IF status_code = HTTP_204_NO_CONTENT \/ body = NullBytes
                     THEN None
                     ELSE body
    IN  << _http_response_start(status_code), _http_response_body(framed) >>

\* The keyword parameters http_response declares.
http_response_parameters == {"status_code", "monitoring", "body", "exception"}

\* Python binds a call only if every keyword it passes is a parameter.
Binds(keywords) == keywords \subseteq http_response_parameters

\* ------------------------------------------------------------------- main
\* Panther.handle_exceptions
handle_exceptions(e) ==
    Response(
        IF e.detail.kind = "dict"
          THEN e.detail
          ELSE Document("detail", e.detail.value),
        e.status_code)

\* The local state of a dispatch that has not been called.
IdleTask ==
    [ pc |-> "idle",
      kind |-> "none",            \* scope['type']
      body |-> <<>>,              \* read_body: bytes accumulated
      endpoint |-> "unset",       \* find_endpoint's result
      request |-> 0,              \* request / connection: 0 is the original
                                  \*   object, m the one before() of m made
      i |-> 0,                    \* hooks done in the running loop
      response |-> NoResponse,
      before_calls |-> <<>>,      \* middlewares whose before() was awaited
      before_arg |-> -1,          \* the object the last before() received
      before_returned |-> -1,     \* the object the last before() returned
      endpoint_calls |-> 0,       \* times the handler was invoked
      endpoint_arg |-> 0,         \* the request object the handler received
      after_calls |-> <<>>,       \* middlewares whose after() was awaited
      after_arg |-> NoResponse,   \* the Response the last after() received
      before_exc |-> NoException, \* what a pre-hook raised
      before_failed |-> 0,        \* the middleware whose before() raised
      endpoint_exc |-> NoException,\* what the handler / listen raised
      after_failed |-> FALSE,     \* a post-hook raised APIException
      after_changed |-> FALSE,    \* a post-hook replaced the Response
      registered |-> -1,          \* the object given to new_connection
      closed |-> -1,              \* the object whose close() was awaited
      listened |-> FALSE,         \* connection.listen() was entered
      monitored |-> "",           \* last label given to the ws Monitoring
      sent |-> <<>>,              \* frames pushed to the host
      escaped |-> NoException ]   \* what propagated out of __call__

\* No call of a utility function is in progress.
NoCall == [pc |-> "none"]

Init ==
    /\ config \in { load_configs(n) : n \in 0..MaxMiddlewares }
    /\ monitoring = [log |-> 0]
    /\ websocket_connections = {}
    /\ task = [p \in Dispatches |-> IdleTask]
    /\ path_call = NoCall
    /\ read_call = NoCall
    /\ app = NoCall

Middlewares == config.middlewares
N == Len(config.middlewares)

\* The event loop runs p only while every other task is parked or absent.
CanRun(p) ==
    \A q \in Dispatches \ {p} : task[q].pc \in {"idle", "ws_listen"}

\* No live registry entry still uses the identity of slot p.
SlotFree(p) == p \notin websocket_connections

Set(p, t) == task' = [task EXCEPT ![p] = t]


\* -------------------------------------------------------------- read_body
\* What receive() may deliver: 'body' and 'more_body' may both be absent.
ChunkBodies == { "absent", "a" }
ContinuationFlags == { "absent", "False", "True" }
Messages == [body : ChunkBodies, more_body : ContinuationFlags]

\* message.get('body', b'')
MessageBody(message) == IF message.body = "absent" THEN <<>> ELSE <<message.body>>
\* message.get('more_body', True): the other default.
DefaultMore(message) == message.more_body # "False"

\* message.get('more_body', False)
MessageMoreBody(message) == message.more_body = "True"

\* -------------------------------------------------------------- handle_http
\* What before() of middleware m returns: the object it received, or one it made.
before(m, request, replace) == IF replace THEN m ELSE request

\* The returned object dropped: the name keeps its object.
NotAssigned(request, returned) == request

\* `request = await middleware.before(request=request)`, and the same for
\* `connection`: the name is bound to the returned object.
Assigned(request, returned) == returned

\* Where the for-loop over the pre-hooks leads: into the loop, or past it.
AfterRouting == IF N = 0 THEN "endpoint" ELSE "before"
\* Where the for-loop over the post-hooks starts, or is skipped.
AfterEndpoint == IF N = 0 THEN "respond" ELSE "after"

\* __call__ with scope['type'] == 'http'; handle_http up to monitoring.before.
HttpCall(p) ==
    /\ task[p].pc = "idle"
    /\ SlotFree(p)
    /\ Set(p, [IdleTask EXCEPT !.pc = "read_body", !.kind = "http"])
    /\ monitoring' = MonitoringBefore(monitoring, p)
    /\ UNCHANGED <<config, websocket_connections>>

\* One iteration of the loop of read_body.
ReadBody(p) ==
    /\ task[p].pc = "read_body"
    /\ \E message \in Messages :
          \* the host sends at most MaxChunks chunks that carry bytes
          /\ Len(task[p].body \o MessageBody(message)) <= MaxChunks
          /\ Set(p, [task[p] EXCEPT
                       !.body = @ \o MessageBody(message),
                       !.pc = IF MessageMoreBody(message)
                                THEN "read_body" ELSE "find_endpoint"])
    /\ UNCHANGED <<config, monitoring, websocket_connections>>

\* http_response(send, status_code=..., monitoring=self.monitoring,
\* exception=True): the early returns of handle_http.
RespondException(t, status_code) ==
    [t EXCEPT !.sent = @ \o http_response(status_code, None, TRUE),
              !.pc = "done"]

NeverMissing(endpoint) == FALSE

\* endpoint is None
EndpointMissing(endpoint) == endpoint = "None"

\* find_endpoint, collect_path_variables and the 404 return.
HttpFindEndpoint(p) ==
    /\ task[p].pc = "find_endpoint"
    /\ \E endpoint \in Endpoints :
          LET t == [task[p] EXCEPT !.endpoint = endpoint]
          IN  IF EndpointMissing(endpoint)
                THEN /\ Set(p, RespondException(t, HTTP_404_NOT_FOUND))
                     /\ monitoring' = MonitoringAfter(monitoring, HTTP_404_NOT_FOUND)
                ELSE /\ Set(p, [t EXCEPT !.pc = AfterRouting])
                     /\ UNCHANGED monitoring
    /\ UNCHANGED <<config, websocket_connections>>

LeakException(t, e) ==
    [t EXCEPT !.sent = @ \o http_response(HTTP_500_INTERNAL_SERVER_ERROR, e.detail, FALSE),
              !.pc = "done"]

\* except Exception: the 500 return; the exception is only logged.
UnhandledException(t, e) ==
    RespondException(t, HTTP_500_INTERNAL_SERVER_ERROR)

\* except APIException as e: response = self.handle_exceptions(e), then the
\* post-hooks.
CaughtAPIException(t, e) ==
    [t EXCEPT !.response = handle_exceptions(e), !.pc = AfterEndpoint, !.i = 0]

\* One iteration of `for middleware in config['middlewares']`.
HttpBefore(p) ==
    /\ task[p].pc = "before"
    /\ LET m == Middlewares[task[p].i + 1]
           t == [task[p] EXCEPT !.before_calls = Append(@, m),
                                !.before_arg = task[p].request]
       IN  \/ \E replace \in BOOLEAN :       \* before() returns a request
                /\ Set(p, [t EXCEPT
                             !.request = Assigned(@, before(m, @, replace)),
                             !.before_returned = before(m, t.request, replace),
                             !.i = @ + 1,
                             !.pc = IF task[p].i + 1 = N THEN "endpoint" ELSE "before"])
                /\ UNCHANGED monitoring
           \/ \E e \in APIExceptions :       \* before() raises APIException
                /\ Set(p, CaughtAPIException(
                            [t EXCEPT !.before_exc = e, !.before_failed = m], e))
                /\ UNCHANGED monitoring
           \/ /\ Set(p, UnhandledException(
                          [t EXCEPT !.before_exc = Defect, !.before_failed = m], Defect))
              /\ monitoring' = MonitoringAfter(monitoring, HTTP_500_INTERNAL_SERVER_ERROR)
    /\ UNCHANGED <<config, websocket_connections>>

\* The capability check left out.
AlwaysCapable(endpoint) == TRUE

\* The capability check of handle_http: a function needs __wrapped__, a class
\* must be a subclass of GenericAPI.
HttpCapable(endpoint) ==
    IF IsFunctionType(endpoint)
      THEN endpoint = "function_api"
      ELSE endpoint = "class_GenericAPI"

\* The capability check, then `response = await _endpoint(request=request, ...)`.
HttpEndpoint(p) ==
    /\ task[p].pc = "endpoint"
    /\ IF ~HttpCapable(task[p].endpoint)
         THEN /\ Set(p, RespondException(task[p], HTTP_501_NOT_IMPLEMENTED))
              /\ monitoring' = MonitoringAfter(monitoring, HTTP_501_NOT_IMPLEMENTED)
         ELSE LET t == [task[p] EXCEPT !.endpoint_calls = @ + 1,
                                       !.endpoint_arg = task[p].request]
              IN  \/ \E r \in HandlerResponses :
                       /\ Set(p, [t EXCEPT !.response = r, !.pc = AfterEndpoint, !.i = 0])
                       /\ UNCHANGED monitoring
                  \/ \E e \in APIExceptions :
                       /\ Set(p, CaughtAPIException([t EXCEPT !.endpoint_exc = e], e))
                       /\ UNCHANGED monitoring
                  \/ /\ Set(p, UnhandledException([t EXCEPT !.endpoint_exc = Defect], Defect))
                     /\ monitoring' = MonitoringAfter(monitoring, HTTP_500_INTERNAL_SERVER_ERROR)
    /\ UNCHANGED <<config, websocket_connections>>

\* One iteration of `for middleware in config['reversed_middlewares']`:
\* only APIException is caught.
HttpAfter(p) ==
    /\ task[p].pc = "after"
    /\ LET m == config.reversed_middlewares[task[p].i + 1]
           t == [task[p] EXCEPT !.after_calls = Append(@, m), !.i = @ + 1,
                                !.after_arg = task[p].response,
                                !.pc = IF task[p].i + 1 = N THEN "respond" ELSE "after"]
       IN  \/ Set(p, t)                       \* after() returns the response
           \/ \E r \in AfterResponses :       \* after() returns another one
                Set(p, [t EXCEPT !.response = r, !.after_changed = TRUE])
           \/ \E e \in APIExceptions :        \* after() raises APIException
                Set(p, [t EXCEPT !.response = handle_exceptions(e),
                                 !.after_failed = TRUE, !.after_changed = TRUE])
           \/ Set(p, [t EXCEPT !.escaped = Defect, !.pc = "raised"])
    /\ UNCHANGED <<config, monitoring, websocket_connections>>

\* The keywords of the last call of handle_http:
\* http_response(send, status_code=, monitoring=, headers=, body=).
final_call_keywords == {"status_code", "monitoring", "headers", "body"}

\* The final `await http_response(...)` of handle_http.
HttpRespond(p) ==
    /\ task[p].pc = "respond"
    /\ IF Binds(final_call_keywords)
         THEN /\ Set(p, [task[p] EXCEPT
                           !.sent = @ \o http_response(task[p].response.status_code,
                                                       task[p].response.body, FALSE),
                           !.pc = "done"])
              /\ monitoring' = MonitoringAfter(monitoring, task[p].response.status_code)
         ELSE /\ Set(p, [task[p] EXCEPT !.escaped = TypeError, !.pc = "raised"])
              /\ UNCHANGED monitoring
    /\ UNCHANGED <<config, websocket_connections>>

\* ---------------------------------------------------------------- handle_ws
\* An entry of the registry: the identity of the admitted connection.
Connection(p, object) == p

\* WebsocketConnections.new_connection: admits the connection.
new_connection(connections, connection) == connections \cup {connection}

\* WebsocketConnections.remove_connection: removing an absent entry is a no-op.
remove_connection(connections, connection) == connections \ {connection}

\* Websocket.listen on a disconnect: the connection leaves the registry.
listen_disconnect(connections, connection) ==
    remove_connection(connections, connection)

\* Websocket.close(code): the close frame; 0 when the caller passes no code.
close(code) == << Frame("websocket.close", code, None) >>

WsAfterRouting == IF N = 0 THEN "ws_new_connection" ELSE "ws_before"
WsAfterListen == IF N = 0 THEN "ws_closed" ELSE "ws_after"

\* __call__ with another scope['type']; handle_ws up to monitoring.before.
WsCall(p) ==
    /\ task[p].pc = "idle"
    /\ SlotFree(p)
    /\ Set(p, [IdleTask EXCEPT !.pc = "ws_find_endpoint", !.kind = "websocket",
                               !.monitored = "before"])
    /\ UNCHANGED <<config, monitoring, websocket_connections>>

\* The closure code of a rejected connection.
RejectCode(endpoint) ==
    IF endpoint = "None" THEN WS_1000_NORMAL_CLOSURE ELSE WS_1014_BAD_GATEWAY

AlwaysBadGateway(endpoint) == WS_1014_BAD_GATEWAY

\* issubclass(endpoint, GenericWebsocket), for a class
IsGenericWebsocket(endpoint) == endpoint = "class_GenericWebsocket"

AdmitUnrouted(endpoint) ==
    IF IsFunctionType(endpoint) THEN "raise"
    ELSE IF endpoint # "None" /\ ~IsGenericWebsocket(endpoint) THEN "reject"
    ELSE "admit"

\* What handle_ws does with find_endpoint's result: "reject", "raise"
\* (issubclass of a function is a TypeError) or "admit".
WsRouting(endpoint) ==
    IF endpoint = "None" THEN "reject"
    ELSE IF IsFunctionType(endpoint) THEN "raise"
    ELSE IF ~IsGenericWebsocket(endpoint) THEN "reject"
    ELSE "admit"

\* find_endpoint, the two rejections, and the construction of the connection.
WsFindEndpoint(p) ==
    /\ task[p].pc = "ws_find_endpoint"
    /\ \E endpoint \in Endpoints :
          LET t == [task[p] EXCEPT !.endpoint = endpoint]
              routing == WsRouting(endpoint)
          IN  /\ routing = "reject" =>
                    /\ Set(p, [t EXCEPT !.monitored = "Rejected",
                                        !.sent = @ \o close(RejectCode(endpoint)),
                                        !.closed = t.request,
                                        !.pc = "done"])
                    /\ websocket_connections' =
                         remove_connection(websocket_connections, Connection(p, t.request))
              /\ routing = "raise" =>
                    /\ Set(p, [t EXCEPT !.escaped = TypeError, !.pc = "raised"])
                    /\ UNCHANGED websocket_connections
              /\ routing = "admit" =>
                    /\ Set(p, [t EXCEPT !.pc = WsAfterRouting])
                    /\ UNCHANGED websocket_connections
    /\ UNCHANGED <<config, monitoring>>

\* The else branch taken after the first pre-hook.
ElseAfterFirst(done) == "ws_new_connection"

\* `for middleware in config['middlewares']: ... else:` after `done` pre-hooks
\* returned: the else branch runs once the loop is exhausted.
WsBeforeLoop(done) == IF done = N THEN "ws_new_connection" ELSE "ws_before"

\* One iteration of the pre-hook loop of handle_ws.
WsBefore(p) ==
    /\ task[p].pc = "ws_before"
    /\ LET m == Middlewares[task[p].i + 1]
           t == [task[p] EXCEPT !.before_calls = Append(@, m),
                                !.before_arg = task[p].request]
       IN  \/ \E replace \in BOOLEAN :
                /\ Set(p, [t EXCEPT
                             !.request = Assigned(@, before(m, @, replace)),
                             !.before_returned = before(m, t.request, replace),
                             !.i = @ + 1,
                             !.pc = WsBeforeLoop(task[p].i + 1)])
                /\ UNCHANGED websocket_connections
           \/ \E e \in APIExceptions :   \* await connection.close(); break
                /\ Set(p, [t EXCEPT !.before_exc = e, !.before_failed = m,
                                    !.sent = @ \o close(0),
                                    !.closed = t.request,
                                    !.i = 0,
                                    !.pc = WsAfterListen])
                /\ websocket_connections' =
                     remove_connection(websocket_connections, Connection(p, t.request))
           \/ /\ Set(p, [t EXCEPT !.before_exc = Defect, !.before_failed = m,
                                  !.escaped = Defect, !.pc = "raised"])
              /\ UNCHANGED websocket_connections
    /\ UNCHANGED <<config, monitoring>>

\* The else branch of the pre-hook loop: new_connection, monitoring.after
\* ('Accepted') and the entry into connection.listen().
WsNewConnection(p) ==
    /\ task[p].pc = "ws_new_connection"
    /\ websocket_connections' =
         new_connection(websocket_connections, Connection(p, task[p].request))
    /\ Set(p, [task[p] EXCEPT !.monitored = "Accepted", !.listened = TRUE,
                              !.registered = task[p].request,
                              !.i = 0, !.pc = "ws_listen"])
    /\ UNCHANGED <<config, monitoring>>

\* connection.listen() ends: on a disconnect it removes the connection from
\* the registry and returns; an exception of the handler propagates.
WsListen(p) ==
    /\ task[p].pc = "ws_listen"
    /\ \/ /\ websocket_connections' =
               listen_disconnect(websocket_connections, Connection(p, task[p].request))
          /\ Set(p, [task[p] EXCEPT !.pc = WsAfterListen])
       \/ \E e \in Raisable :
             /\ Set(p, [task[p] EXCEPT !.endpoint_exc = e, !.escaped = e,
                                       !.pc = "raised"])
             /\ UNCHANGED websocket_connections
    /\ UNCHANGED <<config, monitoring>>

\* One iteration of the post-hook loop of handle_ws:
\* contextlib.suppress(APIException).
WsAfter(p) ==
    /\ task[p].pc = "ws_after"
    /\ LET m == config.reversed_middlewares[task[p].i + 1]
           t == [task[p] EXCEPT !.after_calls = Append(@, m), !.i = @ + 1,
                                !.pc = IF task[p].i + 1 = N THEN "ws_closed" ELSE "ws_after"]
       IN  \/ Set(p, t)
           \/ \E e \in APIExceptions : Set(p, [t EXCEPT !.after_failed = TRUE])
           \/ Set(p, [t EXCEPT !.escaped = Defect, !.pc = "raised"])
    /\ UNCHANGED <<config, monitoring, websocket_connections>>

\* monitoring.after('Closed'); return None
WsClosed(p) ==
    /\ task[p].pc = "ws_closed"
    /\ Set(p, [task[p] EXCEPT !.monitored = "Closed", !.pc = "done"])
    /\ UNCHANGED <<config, monitoring, websocket_connections>>

\* __call__ has returned or raised: the host drops the task.
Return(p) ==
    /\ task[p].pc \in {"done", "raised"}
    /\ Set(p, IdleTask)
    /\ monitoring' = MonitoringForget(monitoring, p)
    /\ UNCHANGED <<config, websocket_connections>>

NextHttp ==
    /\ UNCHANGED call_vars
    /\ \E p \in Dispatches :
        /\ CanRun(p)
        /\ \/ HttpCall(p)
           \/ ReadBody(p)
           \/ HttpFindEndpoint(p)
           \/ HttpBefore(p)
           \/ HttpEndpoint(p)
           \/ HttpAfter(p)
           \/ HttpRespond(p)
           \/ Return(p)

NextWs ==
    /\ UNCHANGED call_vars
    /\ \E p \in Dispatches :
        /\ CanRun(p)
        /\ \/ WsCall(p)
           \/ WsFindEndpoint(p)
           \/ WsBefore(p)
           \/ WsNewConnection(p)
           \/ WsListen(p)
           \/ WsAfter(p)
           \/ WsClosed(p)
           \/ Return(p)

Next == NextHttp \/ NextWs

\* Every dispatch, of either kind.
Spec == Init /\ [][Next]_vars
\* The request-style dispatches.
HttpSpec == Init /\ [][NextHttp]_vars
\* The duplex dispatches.
WsSpec == Init /\ [][NextWs]_vars

\* ------------------------------------------------------------------ claims
Http(p) == task[p].kind = "http"
Ws(p) == task[p].kind = "websocket"
\* __call__ has returned ("done") or raised ("raised").
Finished(p) == task[p].pc \in {"done", "raised"}

IsPrefix(a, b) == Len(a) <= Len(b) /\ a = SubSeq(b, 1, Len(a))

\* No pre-hook, no handler and no post-hook has raised in the dispatch of p.
NothingRaised(p) ==
    /\ task[p].before_exc = NoException
    /\ task[p].endpoint_exc = NoException
    /\ ~task[p].after_failed
    /\ task[p].escaped # Defect

\* The dispatch of p found a Route whose handler passes the capability check.
Dispatched(p) ==
    task[p].endpoint \notin {"unset", "None"} /\ HttpCapable(task[p].endpoint)

\* N pre-hooks in declared order, the handler once, N post-hooks in the
\* reverse of the order of the pre-hooks.
FullPipeline(p) ==
    /\ task[p].before_calls = Middlewares
    /\ task[p].endpoint_calls = 1
    /\ Len(task[p].after_calls) = N
    /\ task[p].after_calls = Reverse(task[p].before_calls)

\* Pre-hooks come before the handler, the handler before the post-hooks.
PipelineOrder(p) ==
    /\ IsPrefix(task[p].before_calls, Middlewares)
    /\ task[p].endpoint_calls <= 1
    /\ task[p].endpoint_calls = 1 => task[p].before_calls = Middlewares
    /\ task[p].after_calls # <<>> => task[p].endpoint_calls = 1
    /\ IsPrefix(task[p].after_calls, Reverse(task[p].before_calls))

\* C1 as written: every request-style dispatch in which nothing raises runs
\* N pre-hooks in order, the handler once and N post-hooks in reverse order.
C1_AsWritten ==
    \A p \in Dispatches :
        Http(p) /\ Finished(p) /\ NothingRaised(p) => FullPipeline(p)

\* C1 (amended): a request-style dispatch that is routed to a handler passing
\* the capability check, and in which no hook and no handler raises, invokes
\* exactly N pre-hooks in declared order, then the handler exactly once, then
\* exactly N post-hooks in the reverse of the pre-hook order.
C1_PipelineSymmetry ==
    \A p \in Dispatches :
        Http(p) /\ NothingRaised(p) =>
            /\ PipelineOrder(p)
            /\ Finished(p) /\ Dispatched(p) => FullPipeline(p)

C1_Witness ==
    \E p \in Dispatches :
        /\ Http(p) /\ Finished(p) /\ NothingRaised(p) /\ Dispatched(p)
        /\ N = MaxMiddlewares
        /\ task[p].before_calls = Middlewares
        /\ task[p].after_calls = Reverse(Middlewares)
        /\ task[p].after_calls # task[p].before_calls

\* The two frames of a response with this status and this body payload.
Framed(p, status_code, body) ==
    task[p].sent = << Frame("http.response.start", status_code, None),
                      Frame("http.response.body", 0, body) >>

\* C2: when the k-th pre-hook raises an APIException, exactly k pre-hooks are
\* invoked, the handler is never invoked, all N post-hooks are invoked, and
\* the response framed carries the status code and detail of the mapped
\* exception unless a post-hook replaced it.
C2_PreHookError ==
    \A p \in Dispatches :
        Http(p) /\ IsAPIException(task[p].before_exc) =>
            /\ Len(task[p].before_calls) = task[p].before_failed
            /\ task[p].endpoint_calls = 0
            /\ Finished(p) =>
                 /\ Len(task[p].after_calls) = N
                 /\ ~task[p].after_changed =>
                      Framed(p, task[p].before_exc.status_code,
                             handle_exceptions(task[p].before_exc).body)

\* C3: when the handler raises an exception that is not an APIException, no
\* post-hook is invoked and the response framed is a 500 whose body is only
\* the status text of 500.
C3_HandlerDefect ==
    \A p \in Dispatches :
        Http(p) /\ task[p].endpoint_exc = Defect =>
            /\ task[p].after_calls = <<>>
            /\ task[p].pc = "done"
            /\ task[p].escaped = NoException
            /\ Framed(p, 500, Document("detail", "Internal Server Error"))

C3_Witness ==
    \E p \in Dispatches :
        /\ Http(p) /\ task[p].endpoint_exc = Defect /\ task[p].pc = "done"
        /\ N = MaxMiddlewares
        /\ task[p].before_calls = Middlewares
        /\ task[p].endpoint_calls = 1

\* C4: every request-style dispatch, whatever its outcome, pushes exactly one
\* start frame followed by exactly one body frame and nothing else.
C4_OneStartOneBody ==
    \A p \in Dispatches :
        Http(p) =>
            /\ Finished(p) =>
                 /\ Len(task[p].sent) = 2
                 /\ task[p].sent[1].type = "http.response.start"
                 /\ task[p].sent[2].type = "http.response.body"
            /\ ~Finished(p) => task[p].sent = <<>>

\* C5: an APIException raised by a pre-hook, by the handler or by a post-hook
\* never propagates out of __call__, in either kind of dispatch.
C5_APIExceptionNeverEscapes ==
    \A p \in Dispatches : ~IsAPIException(task[p].escaped)

\* C6: in a request-style dispatch an exception that is not an APIException,
\* raised by a pre-hook, the handler or a post-hook, ends in a framed 500 and
\* does not propagate out of the dispatch.
C6_DefectFramedAs500 ==
    \A p \in Dispatches :
        Http(p) =>
            /\ task[p].escaped # Defect
            /\ task[p].before_exc = Defect \/ task[p].endpoint_exc = Defect =>
                 Framed(p, 500, Document("detail", "Internal Server Error"))

\* C7: a connection is in the registry if and only if it has been admitted
\* and its receive loop has not ended: once listen() has ended, also by
\* raising, the connection is no longer in the registry.
C7_RegisteredIffListening ==
    \A p \in Dispatches :
        p \in websocket_connections <=> task[p].pc = "ws_listen"

\* The step in which handle_ws finds no Route for p.
NoRouteStep(p) ==
    /\ task[p].pc = "ws_find_endpoint"
    /\ task'[p].endpoint = "None"

\* C8: a duplex dispatch whose path matches no Route closes the probe with
\* 1000, never calls new_connection, runs no middleware hook and leaves the
\* registry as it was.
C8_NoRouteRejected ==
    /\ [](\A p \in Dispatches :
            Ws(p) /\ task[p].endpoint = "None" =>
                /\ task[p].pc = "done"
                /\ task[p].sent = << Frame("websocket.close", 1000, None) >>
                /\ task[p].registered = -1
                /\ ~task[p].listened
                /\ p \notin websocket_connections
                /\ task[p].before_calls = <<>>
                /\ task[p].after_calls = <<>>)
    /\ [][\A p \in Dispatches :
            NoRouteStep(p) =>
                /\ websocket_connections' = websocket_connections
                /\ Cardinality(websocket_connections') = Cardinality(websocket_connections)
         ]_vars

C8_Witness ==
    \E p \in Dispatches :
        /\ Ws(p) /\ task[p].endpoint = "None" /\ task[p].pc = "done"
        /\ N = MaxMiddlewares
        /\ \E q \in Dispatches \ {p} :
              q \in websocket_connections /\ task[q].pc = "ws_listen"

\* The dispatch of p got to the final http_response call of handle_http.
HasFinalResponse(p) ==
    /\ task[p].response # NoResponse
    /\ task[p].escaped # Defect

\* C9: when the final Response has status 204, or a body that is the
\* serialized null, the body frame pushed to the host carries no payload.
C9_BodylessFrame ==
    \A p \in Dispatches :
        /\ Http(p) /\ Finished(p) /\ HasFinalResponse(p)
        /\ \/ task[p].response.status_code = 204
           \/ task[p].response.body = NullBytes
        => Framed(p, task[p].response.status_code, None)

\* C10: a request-style dispatch whose path matches no Route frames a 404 and
\* invokes no pre-hook, no handler and no post-hook.
C10_NoRoute404 ==
    \A p \in Dispatches :
        Http(p) /\ task[p].endpoint = "None" =>
            /\ task[p].pc = "done"
            /\ task[p].escaped = NoException
            /\ Framed(p, 404, Document("detail", "Not Found"))
            /\ task[p].before_calls = <<>>
            /\ task[p].endpoint_calls = 0
            /\ task[p].after_calls = <<>>

C10_Witness ==
    \E p \in Dispatches :
        /\ Http(p) /\ task[p].endpoint = "None" /\ task[p].pc = "done"
        /\ N = MaxMiddlewares
        /\ Len(task[p].sent) = 2

\* The dispatch of p found a Route whose handler is a plain function without
\* the registration wrapper, or a class that is not a subclass of GenericAPI.
Mismatched(p) ==
    task[p].endpoint \in {"function_plain", "class_GenericWebsocket"}

\* C11 as written: a request-style dispatch whose matched handler fails the
\* capability check frames a 501 and never invokes the handler.
C11_AsWritten ==
    \A p \in Dispatches :
        Http(p) /\ Mismatched(p) =>
            /\ task[p].endpoint_calls = 0
            /\ Finished(p) => Framed(p, 501, Document("detail", "Not Implemented"))

\* C11 (amended): a request-style dispatch whose matched handler fails the
\* capability check never invokes the handler, and frames a 501 when every
\* pre-hook has returned (the check comes after the pre-hooks).
C11_Mismatch501 ==
    \A p \in Dispatches :
        Http(p) /\ Mismatched(p) =>
            /\ task[p].endpoint_calls = 0
            /\ task[p].endpoint_exc = NoException
            /\ task[p].before_exc = NoException /\ task[p].pc \notin {"before", "endpoint"} =>
                 /\ task[p].pc = "done"
                 /\ task[p].before_calls = Middlewares
                 /\ task[p].after_calls = <<>>
                 /\ Framed(p, 501, Document("detail", "Not Implemented"))

C11_Witness ==
    \E p \in Dispatches :
        /\ Http(p) /\ Mismatched(p) /\ task[p].pc = "done"
        /\ task[p].before_exc = NoException
        /\ N = MaxMiddlewares
        /\ task[p].before_calls = Middlewares
        /\ Len(task[p].sent) = 2


\* ------------------------------------------------ collect_path_variables
\* A str is the sequence of its characters.
MaxSegments == 2

Min(a, b) == IF a <= b THEN a ELSE b

\* str.removesuffix: drops one trailing occurrence of suffix, when there is one.
removesuffix(s, suffix) ==
    IF /\ Len(s) >= Len(suffix)
       /\ SubSeq(s, Len(s) - Len(suffix) + 1, Len(s)) = suffix
    THEN SubSeq(s, 1, Len(s) - Len(suffix))
    ELSE s

\* str.removeprefix left out: the str comes back whole.
KeepPrefix(s, prefix) == s

\* str.removeprefix: drops one leading occurrence of prefix, when there is one.
removeprefix(s, prefix) ==
    IF Len(s) >= Len(prefix) /\ SubSeq(s, 1, Len(prefix)) = prefix
    THEN SubSeq(s, Len(prefix) + 1, Len(s))
    ELSE s

\* str.startswith
startswith(s, prefix) ==
    Len(s) >= Len(prefix) /\ SubSeq(s, 1, Len(prefix)) = prefix

\* str.split on a one-character separator: an empty str gives one empty part.
RECURSIVE split(_, _)
split(s, sep) ==
    IF \A i \in 1..Len(s) : s[i] # sep
    THEN << s >>
    ELSE LET i == CHOOSE k \in 1..Len(s) :
                      s[k] = sep /\ \A l \in 1..(k - 1) : s[l] # sep
         IN  << SubSeq(s, 1, i - 1) >> \o split(SubSeq(s, i + 1, Len(s)), sep)

\* zip: pairs up to the shorter of the two.
zip(a, b) == [i \in 1..Min(Len(a), Len(b)) |-> << a[i], b[i] >>]

\* dict() and d[key] = value
EmptyDict == [key \in {} |-> << >>]
SetItem(d, key, value) ==
    [k \in DOMAIN d \cup {key} |-> IF k = key THEN value ELSE d[k]]

\* The loop of collect_path_variables from its i-th pair on.
RECURSIVE CollectFrom(_, _, _)
CollectFrom(pairs, i, path_variables) ==
    IF i > Len(pairs)
    THEN path_variables
    ELSE LET f_path == pairs[i][1]
             r_path == pairs[i][2]
         IN  CollectFrom(pairs, i + 1,
                 IF startswith(f_path, << "<" >>)
                 THEN SetItem(path_variables,
                              SubSeq(f_path, 2, Len(f_path) - 1), r_path)
                 ELSE path_variables)

collect_path_variables(request_path, found_path) ==
    LET found == removeprefix(removesuffix(found_path, << "/" >>), << "/" >>)
        request == removeprefix(removesuffix(request_path, << "/" >>), << "/" >>)
    IN  CollectFrom(zip(split(found, "/"), split(request, "/")), 1, EmptyDict)

\* The segments of the patterns and of the request paths of the calls.
Placeholder(name) == << "<", name, ">" >>
PatternSegments == { << "u" >>, Placeholder("i"), Placeholder("j") }
RequestSegments == { << "u" >>, << "4" >>, << "5" >> }

SegmentLists(S) ==
    UNION { [1..n -> S] : n \in 1..MaxSegments }

\* '/'.join(segments)
RECURSIVE join(_)
join(segments) ==
    IF Len(segments) = 1
    THEN segments[1]
    ELSE segments[1] \o << "/" >> \o join(Tail(segments))

\* The path of the segments, with or without a leading and a trailing '/'.
Path(segments, leading, trailing) ==
    (IF leading THEN << "/" >> ELSE << >>)
        \o join(segments)
        \o (IF trailing THEN << "/" >> ELSE << >>)

\* A request path and the pattern it matched: as many segments in both.
PathCalls ==
    { [pc |-> "called",
       found_segments |-> f,
       request_segments |-> r,
       found_path |-> Path(f, fl, ft),
       request_path |-> Path(r, rl, rt),
       result |-> EmptyDict] :
         f \in SegmentLists(PatternSegments),
         r \in SegmentLists(RequestSegments),
         fl \in BOOLEAN, ft \in BOOLEAN, rl \in BOOLEAN, rt \in BOOLEAN }

\* No dispatch is under way.
NoDispatch ==
    /\ config = load_configs(0)
    /\ monitoring = [log |-> 0]
    /\ websocket_connections = {}
    /\ task = [p \in Dispatches |-> IdleTask]

InitPath ==
    /\ NoDispatch
    /\ read_call = NoCall
    /\ app = NoCall
    /\ path_call \in { c \in PathCalls :
                         Len(c.found_segments) = Len(c.request_segments) }

CollectPathVariables ==
    /\ path_call.pc = "called"
    /\ path_call' = [path_call EXCEPT
           !.pc = "returned",
           !.result = collect_path_variables(path_call.request_path,
                                             path_call.found_path)]
    /\ UNCHANGED << dispatch_vars, read_call, app >>

NextPath == CollectPathVariables

\* The calls of collect_path_variables.
PathSpec == InitPath /\ [][NextPath]_vars

\* The positions of the placeholder segments of the pattern of the call.
PlaceholderPositions ==
    { i \in 1..Len(path_call.found_segments) :
        \E name \in {"i", "j"} : path_call.found_segments[i] = Placeholder(name) }
PlaceholderName(i) == << path_call.found_segments[i][2] >>
DistinctNames ==
    \A i, k \in PlaceholderPositions :
        PlaceholderName(i) = PlaceholderName(k) => i = k

\* One entry per placeholder segment, holding the request segment at its place.
OneEntryPerPlaceholder ==
    /\ Cardinality(DOMAIN path_call.result) = Cardinality(PlaceholderPositions)
    /\ \A i \in PlaceholderPositions :
          /\ PlaceholderName(i) \in DOMAIN path_call.result
          /\ path_call.result[PlaceholderName(i)] = path_call.request_segments[i]

\* The result is that of the call without leading and trailing separators.
SeparatorsIgnored ==
    path_call.result =
        collect_path_variables(Path(path_call.request_segments, FALSE, FALSE),
                               Path(path_call.found_segments, FALSE, FALSE))

FramedResponse(p, response) ==
    Framed(p, response.status_code,
           IF response.status_code = 204 \/ response.body = NullBytes
           THEN None ELSE response.body)

\* C13: when a post-hook of a request-style dispatch raises an APIException it
\* is mapped to a Response, every remaining post-hook is still invoked, each
\* post-hook receives the most recent Response, and the Response framed is the
\* one left after the last post-hook.
C13_PostHookError ==
    /\ [](\A p \in Dispatches :
            Http(p) /\ task[p].after_failed /\ task[p].pc \notin {"after", "respond"} =>
                /\ task[p].after_calls = config.reversed_middlewares
                /\ FramedResponse(p, task[p].response))
    /\ [][\A p \in Dispatches :
            Http(p) /\ task'[p].after_calls # task[p].after_calls /\ task[p].pc = "after" =>
                /\ task'[p].after_arg = task[p].response
                /\ task'[p].after_failed # task[p].after_failed =>
                       \E e \in APIExceptions : task'[p].response = handle_exceptions(e)]_vars


\* The duplex dispatch of p got past routing and the capability check.
WsAdmissible(p) == Ws(p) /\ task[p].endpoint = "class_GenericWebsocket"

\* C14: a duplex dispatch that got past routing and the capability check, whose
\* pre-hooks and receive loop raised nothing but APIException, ends having
\* invoked all N post-hooks in reverse declared order, whatever a post-hook
\* raised, and having notified monitoring of 'Closed' after them.
C14_ClosureRunsAllPostHooks ==
    \A p \in Dispatches :
        /\ WsAdmissible(p) /\ Finished(p)
        /\ task[p].before_exc # Defect
        /\ task[p].endpoint_exc = NoException
        => /\ task[p].after_calls = config.reversed_middlewares
           /\ task[p].monitored = "Closed"
           /\ task[p].pc = "done"


\* C15: in a duplex dispatch new_connection is called only after all N
\* pre-hooks returned without an APIException, and the receive loop starts only
\* after it; when the k-th pre-hook raises an APIException, exactly k pre-hooks
\* are invoked, the connection is closed, never registered, and its receive
\* loop never runs.
C15_AdmissionAfterPreHooks ==
    \A p \in Dispatches :
        Ws(p) =>
            /\ task[p].registered # -1 =>
                 /\ task[p].before_calls = Middlewares
                 /\ task[p].before_exc = NoException
            /\ task[p].listened => task[p].registered # -1
            /\ p \in websocket_connections => task[p].registered # -1
            /\ IsAPIException(task[p].before_exc) =>
                 /\ Len(task[p].before_calls) = task[p].before_failed
                 /\ IsPrefix(task[p].before_calls, Middlewares)
                 /\ task[p].sent = close(0)
                 /\ task[p].registered = -1
                 /\ ~task[p].listened
                 /\ p \notin websocket_connections

C15_Witness ==
    \E p \in Dispatches :
        /\ Ws(p) /\ task[p].pc = "done"
        /\ IsAPIException(task[p].before_exc)
        /\ N = MaxMiddlewares
        /\ task[p].before_failed = 1
        /\ task[p].before_calls = << 1 >>
        /\ \E q \in Dispatches \ {p} :
              /\ task[q].registered # -1 /\ q \in websocket_connections
              /\ task[q].before_calls = Middlewares


\* The duplex dispatch of p found a Route whose handler is not a subclass of
\* GenericWebsocket: a function, or another class.
WsMismatched(p) ==
    Ws(p) /\ task[p].endpoint \in {"function_api", "function_plain", "class_GenericAPI"}

\* C16: a duplex dispatch whose path matches a Route whose handler is not a
\* duplex-capable class closes the probe with 1014, not with 1000, never
\* instantiates the handler, runs no middleware hook and never registers.
C16_MismatchBadGateway ==
    \A p \in Dispatches :
        WsMismatched(p) =>
            /\ task[p].pc = "done"
            /\ task[p].sent = close(WS_1014_BAD_GATEWAY)
            /\ task[p].sent # close(WS_1000_NORMAL_CLOSURE)
            /\ task[p].escaped = NoException
            /\ task[p].before_calls = <<>>
            /\ task[p].after_calls = <<>>
            /\ task[p].registered = -1
            /\ ~task[p].listened
            /\ p \notin websocket_connections


\* ---------------------------------------------------- read_body, on its own
MaxMessages == 3

\* What the host delivers to one call of read_body: two different payloads
\* tell the order of concatenation.
ReadMessages == [body : ChunkBodies \cup { "b" }, more_body : ContinuationFlags]

\* body = b''; more_body = True
InitRead ==
    /\ NoDispatch
    /\ path_call = NoCall
    /\ app = NoCall
    /\ read_call = [pc |-> "while", body |-> << >>, more_body |-> TRUE,
                    received |-> << >>, result |-> << >>]

\* `while more_body:` enters the loop and calls receive(), or `return body`.
ReadBodyWhile ==
    /\ read_call.pc = "while"
    /\ read_call' = IF read_call.more_body
                      THEN [read_call EXCEPT !.pc = "receive"]
                      ELSE [read_call EXCEPT !.pc = "returned",
                                             !.result = read_call.body]
    /\ UNCHANGED << dispatch_vars, path_call, app >>

\* The host delivers a message to the pending receive(); the loop body runs.
ReadBodyReceive ==
    /\ read_call.pc = "receive"
    /\ Len(read_call.received) < MaxMessages
    /\ \E message \in ReadMessages :
          read_call' = [read_call EXCEPT
                           !.received = Append(@, message),
                           !.body = @ \o MessageBody(message),
                           !.more_body = MessageMoreBody(message),
                           !.pc = "while"]
    /\ UNCHANGED << dispatch_vars, path_call, app >>

NextRead == ReadBodyWhile \/ ReadBodyReceive

\* One call of read_body; the host may never deliver.
ReadSpec == InitRead /\ [][NextRead]_vars
\* The same, where the coroutine is resumed whenever it can run.
FairReadSpec == ReadSpec /\ WF_vars(ReadBodyWhile)

\* The continuation flag of the chunk is false or absent.
LastChunk(message) == message.more_body \in { "absent", "False" }

\* The bodies of the chunks, in arrival order.
RECURSIVE Concatenation(_)
Concatenation(messages) ==
    IF messages = << >>
    THEN << >>
    ELSE (IF Head(messages).body = "absent" THEN << >> ELSE << Head(messages).body >>)
             \o Concatenation(Tail(messages))

\* C17: read_body has one receive() pending at a time, pulls no chunk after the
\* first chunk whose continuation flag is false or absent, returns the
\* concatenation in arrival order of the bodies of all chunks up to and
\* including that one, and returns once the host has delivered such a chunk.
C17_ReadBody ==
    /\ [](/\ \A k \in 1..(Len(read_call.received) - 1) :
                ~LastChunk(read_call.received[k])
          /\ read_call.pc = "receive" =>
                \A k \in 1..Len(read_call.received) : ~LastChunk(read_call.received[k])
          /\ read_call.pc = "returned" =>
                /\ read_call.received # << >>
                /\ LastChunk(read_call.received[Len(read_call.received)])
                /\ read_call.result = Concatenation(read_call.received))
    /\ [][read_call.pc = "receive" =>
             Len(read_call'.received) = Len(read_call.received) + 1]_vars
    /\ ((\E k \in 1..Len(read_call.received) : LastChunk(read_call.received[k]))
            ~> read_call.pc = "returned")

C17_Witness ==
    /\ read_call.pc = "returned"
    /\ Len(read_call.received) = MaxMessages
    /\ read_call.received[1].body = "a"
    /\ read_call.received[2].body = "b"
    /\ read_call.received[MaxMessages].more_body = "absent"
    /\ read_call.result[1] = "a" /\ read_call.result[2] = "b"


\* ------------------------------------------- one dispatch, of either kind
\* The host runs one dispatch at a time, to its end.
OnlyDispatch == CHOOSE p \in Dispatches : \A q \in Dispatches : p <= q

NextSingle ==
    /\ UNCHANGED call_vars
    /\ \E p \in { OnlyDispatch } :
        /\ CanRun(p)
        /\ \/ HttpCall(p)
           \/ ReadBody(p)
           \/ HttpFindEndpoint(p)
           \/ HttpBefore(p)
           \/ HttpEndpoint(p)
           \/ HttpAfter(p)
           \/ HttpRespond(p)
           \/ WsCall(p)
           \/ WsFindEndpoint(p)
           \/ WsBefore(p)
           \/ WsNewConnection(p)
           \/ WsListen(p)
           \/ WsAfter(p)
           \/ WsClosed(p)
           \/ Return(p)

SingleSpec == Init /\ [][NextSingle]_vars

\* The object the pipeline of p holds after its pre-hooks so far: the one the
\* last completed pre-hook returned, the original (0) when none completed.
Latest(t) == IF t.before_returned = -1 THEN 0 ELSE t.before_returned

\* C18: within one dispatch each pre-hook receives the object returned by the
\* previous pre-hook (the first receives the original), and the handler, the
\* registry insertion with the receive loop, and close() operate on the object
\* returned by the last pre-hook that completed.
C18_LatestObject ==
    /\ [](\A p \in Dispatches :
            /\ task[p].endpoint_calls > 0 => task[p].endpoint_arg = Latest(task[p])
            /\ task[p].registered # -1 => task[p].registered = Latest(task[p])
            /\ task[p].closed # -1 => task[p].closed = Latest(task[p])
            /\ Len(task[p].before_calls) = 1 => task[p].before_arg = 0)
    /\ [][\A p \in Dispatches :
            Len(task'[p].before_calls) = Len(task[p].before_calls) + 1 =>
                task'[p].before_arg = Latest(task[p])]_vars

C18_Witness ==
    \E p \in Dispatches :
        /\ N = MaxMiddlewares
        /\ task[p].before_calls = Middlewares
        /\ task[p].before_returned = N
        /\ task[p].before_arg = N - 1
        /\ \/ Http(p) /\ task[p].endpoint_calls = 1 /\ task[p].endpoint_arg = N
           \/ Ws(p) /\ task[p].registered = N /\ task[p].listened


\* ------------------------------------------- dispatches that interleave
\* The task of q is absent, or suspended in an await on the host: the next
\* message of its connection, or the next chunk of its body.
AwaitsHost(q) == task[q].pc \in {"idle", "ws_listen", "read_body"}

\* The request-style dispatches as the event loop runs them: while a task
\* awaits the host, another task takes its steps.
NextConcurrent ==
    /\ UNCHANGED call_vars
    /\ \E p \in Dispatches :
        /\ \A q \in Dispatches \ {p} : AwaitsHost(q)
        /\ \/ HttpCall(p)
           \/ ReadBody(p)
           \/ HttpFindEndpoint(p)
           \/ HttpBefore(p)
           \/ HttpEndpoint(p)
           \/ HttpAfter(p)
           \/ HttpRespond(p)
           \/ Return(p)

ConcurrentSpec == Init /\ [][NextConcurrent]_vars

\* handle_http of p has called self.monitoring.before and has neither called
\* monitoring.after nor ended.
Monitored(p) == Http(p) /\ task[p].pc \notin {"idle", "done", "raised"}

\* The step in which handle_http of q calls self.monitoring.before.
MonitoringBeforeStep(q) == task[q].pc = "idle" /\ task'[q].pc = "read_body"

\* The step in which the dispatch of q calls monitoring.after on
\* self.monitoring: it is the step that pushes its frames.
MonitoringAfterStep(q) ==
    Http(q) /\ task[q].sent = << >> /\ task'[q].sent # << >>

\* C19: between the monitoring.before and the monitoring.after of one
\* request-style dispatch, no other dispatch's monitoring.before or
\* monitoring.after acts on the Monitoring instance, which goes on naming the
\* request of that dispatch.
C19_MonitoringNotShared ==
    /\ [](\A p \in Dispatches : Monitored(p) => monitoring.log = p)
    /\ [][\A p \in Dispatches : \A q \in Dispatches \ {p} :
            Monitored(p) => ~MonitoringBeforeStep(q) /\ ~MonitoringAfterStep(q)]_vars


\* ------------------------------------------------------- Panther.__init__
MaxRoutes == 3

\* config['flat_urls'].values(): the handlers of the registered Routes.
FlatUrls ==
    UNION { [1..n -> Endpoints \ {"None"}] : n \in 0..MaxRoutes }

\* The test of the loop with the issubclass part left out.
NotAFunction(endpoint) == ~IsFunctionType(endpoint)

\* not isinstance(endpoint, types.FunctionType) and issubclass(endpoint, Websocket)
IsWebsocketClass(endpoint) ==
    ~IsFunctionType(endpoint) /\ endpoint = "class_GenericWebsocket"

\* The for/else of _create_ws_connections_instance from the i-th handler on.
RECURSIVE has_ws(_, _)
has_ws(flat_urls, i) ==
    IF i > Len(flat_urls) THEN FALSE
    ELSE IF IsWebsocketClass(flat_urls[i]) THEN TRUE
    ELSE has_ws(flat_urls, i + 1)

\* __init__ is entered with the Routes the application declares.
InitApp ==
    /\ NoDispatch
    /\ path_call = NoCall
    /\ read_call = NoCall
    /\ app \in { [pc |-> "load_configs", flat_urls |-> urls, has_ws |-> FALSE,
                  websocket_connections |-> FALSE, threads |-> 0] :
                     urls \in FlatUrls }

\* load_configs returns: its last call is _create_ws_connections_instance.
LoadConfigs ==
    /\ app.pc = "load_configs"
    /\ app' = [app EXCEPT
                  !.has_ws = has_ws(app.flat_urls, 1),
                  !.websocket_connections = has_ws(app.flat_urls, 1),
                  !.pc = "loaded"]
    /\ UNCHANGED << dispatch_vars, path_call, read_call >>

\* load_configs raises before it gets to the Routes: __init__ logs, sys.exit().
LoadConfigsRaises ==
    /\ app.pc = "load_configs"
    /\ app' = [app EXCEPT !.pc = "exited"]
    /\ UNCHANGED << dispatch_vars, path_call, read_call >>

\* The rest of __init__: `if config['has_ws']: Thread(...).start()`.
StartListener ==
    /\ app.pc = "loaded"
    /\ app' = [app EXCEPT
                  !.threads = IF app.has_ws THEN @ + 1 ELSE @,
                  !.pc = "ready"]
    /\ UNCHANGED << dispatch_vars, path_call, read_call >>

NextApp == LoadConfigs \/ LoadConfigsRaises \/ StartListener

\* The construction of one Panther instance.
AppSpec == InitApp /\ [][NextApp]_vars

\* Some registered Route has a duplex-capable class for its handler.
HasDuplexRoute ==
    \E i \in 1..Len(app.flat_urls) : app.flat_urls[i] = "class_GenericWebsocket"

====
